---- MODULE Spec2Model ----
(***************************************************************************)
(* Model of DistributedPairing/animate.py: the replay of a recorded event  *)
(* log as frames.  ConcurrentSimulationVisualizer.__init__ extracts the    *)
(* topology from the leading INIT event and batches the remaining events   *)
(* with group_events_by_time; animate then calls update_frame once per     *)
(* frame index, which applies the frame's events to node_states and        *)
(* matched_edges and draws the scene.                                      *)
(***************************************************************************)
EXTENDS Integers, Sequences, FiniteSets, TLC

VARIABLES
    json_file,            \* the parsed content of the event log file (never written)
    raw_events,           \* __init__'s local list: popped, then sorted in place
    pc,                   \* position of the program
    err,                  \* the exception that ended the program, or NoError
    graph_nodes,          \* self.graph.nodes
    graph_edges,          \* self.graph.edges
    pos,                  \* self.pos
    node_states,          \* self.node_states
    matched_edges,        \* self.matched_edges
    frames,               \* self.frames
    frame_idx,            \* index of the next frame the animation hands to update_frame
    active_messages,      \* update_frame's local list, as drawn by the last call
    state_changes_count,  \* update_frame's local counters, as titled by the last call
    message_count,
    match_count,
    calls                 \* the frame indices the animation has handed to update_frame

vars == <<json_file, raw_events, pc, err, graph_nodes, graph_edges, pos, node_states,
          matched_edges, frames, frame_idx, active_messages, state_changes_count,
          message_count, match_count, calls>>

-----------------------------------------------------------------------------
(* Program constants *)

\* The keys of STATE_COLORS.
STATE_COLORS == {"SINGLE", "PROPOSER", "LISTENER", "MATCHED"}

TIME_WINDOW_NS == 100000000

\* Python's None for a node id (dict.get of a missing key); node ids are 1, 2, ...
None == 0

\* Python's None for a string-valued field.
NoneStr == "None"

\* A missing "timestamp" key; timestamps present in a log are >= 0.
NoTimestamp == -1

NoError == "none"
IndexError == "IndexError: pop from empty list"
ValueError == "ValueError: First event must be INIT"
KeyError == "KeyError"
FrameIndexError == "IndexError: list index out of range"

-----------------------------------------------------------------------------
(* Bounds of the model *)

\* Longest event list handed to group_events_by_time on its own.
MaxEvents == 3

\* Timestamps reach MaxWin windows past 0.
MaxWin == 3

\* Most events after the first one in a replayed log.
MaxBody == 2

-----------------------------------------------------------------------------
(* Events: the JSON objects of the log, every key present, absent ones None *)

Event(type, timestamp, node, state, partner, sender, target, mtype, nodes, edges) ==
    [type |-> type, timestamp |-> timestamp, node |-> node, state |-> state,
     partner |-> partner, sender |-> sender, target |-> target, mtype |-> mtype,
     nodes |-> nodes, edges |-> edges]

InitEvent(nodes, edges) ==
    Event("INIT", NoTimestamp, None, NoneStr, None, None, None, NoneStr, nodes, edges)

StateChange(node, state, timestamp) ==
    Event("STATE_CHANGE", timestamp, node, state, None, None, None, NoneStr, {}, {})

MsgSent(sender, target, mtype, timestamp) ==
    Event("MSG_SENT", timestamp, None, NoneStr, None, sender, target, mtype, {}, {})

Matched(node, partner, timestamp) ==
    Event("MATCHED", timestamp, node, NoneStr, partner, None, None, NoneStr, {}, {})

\* All sequences over S of length 0..n.
SeqsUpTo(S, n) == UNION {[1..k -> S] : k \in 0..n}

-----------------------------------------------------------------------------
(* group_events_by_time *)

\* event.get("timestamp", 0)
Timestamp(event) == IF event.timestamp = NoTimestamp THEN 0 ELSE event.timestamp

\* Mutant of InsertByTimestamp: an unstable sort, ties end up in reverse order.
InsertBeforeTies(sorted, event) ==
    LET k == Cardinality({i \in 1..Len(sorted) : Timestamp(sorted[i]) < Timestamp(event)})
    IN  SubSeq(sorted, 1, k) \o <<event>> \o SubSeq(sorted, k + 1, Len(sorted))

\* list.sort(key=...) is stable: each event goes after every event whose key is
\* not greater than its own.
InsertByTimestamp(sorted, event) ==
    LET k == Cardinality({i \in 1..Len(sorted) : Timestamp(sorted[i]) <= Timestamp(event)})
    IN  SubSeq(sorted, 1, k) \o <<event>> \o SubSeq(sorted, k + 1, Len(sorted))

RECURSIVE SortEvents(_)
SortEvents(events) ==
    IF events = <<>> THEN <<>>
    ELSE InsertByTimestamp(SortEvents(SubSeq(events, 1, Len(events) - 1)),
                           events[Len(events)])

\* Mutant of FirstWindowStart: the first window anchored at 0, not at the first event.
ZeroWindowStart(events) == 0

\* window_start = events[0].get("timestamp", 0)
FirstWindowStart(events) == Timestamp(events[1])

\* Mutant of InWindow: the boundary excluded.
InWindowStrict(ts, window_start) == ts - window_start < TIME_WINDOW_NS

\* ts - window_start <= TIME_WINDOW_NS
InWindow(ts, window_start) == ts - window_start <= TIME_WINDOW_NS

\* Mutant of NewWindowStart: fixed bins, the anchor advanced by one window.
FixedGridWindowStart(ts, window_start) == window_start + TIME_WINDOW_NS

\* window_start = ts, when an event opens a new batch
NewWindowStart(ts, window_start) == ts

\* The loop over the sorted events, from event i on.
RECURSIVE GroupLoop(_, _, _, _, _)
GroupLoop(events, i, batched_frames, current_batch, window_start) ==
    IF i > Len(events)
    THEN IF current_batch # <<>> THEN Append(batched_frames, current_batch)
                                 ELSE batched_frames
    ELSE LET event == events[i]
             ts == Timestamp(event)
         IN  IF InWindow(ts, window_start)
             THEN GroupLoop(events, i + 1, batched_frames,
                            Append(current_batch, event), window_start)
             ELSE GroupLoop(events, i + 1, Append(batched_frames, current_batch),
                            <<event>>, NewWindowStart(ts, window_start))

\* The frames returned for an event list (the list is sorted in place on the way).
group_events_by_time(events) ==
    IF events = <<>> THEN <<>>
    ELSE LET sorted == SortEvents(events)
         IN  GroupLoop(sorted, 1, <<>>, <<>>, FirstWindowStart(sorted))

\* The caller's list after the call.
EventsAfterGrouping(events) == IF events = <<>> THEN <<>> ELSE SortEvents(events)

-----------------------------------------------------------------------------
(* __init__ *)

\* Mutant of SortedPair: the pair kept in the order given.
UnsortedPair(a, b) == <<a, b>>

\* tuple(sorted((a, b)))
SortedPair(a, b) == IF a <= b THEN <<a, b>> ELSE <<b, a>>

\* graph.add_nodes_from(nodes); graph.add_edges_from(edges): an undirected graph
\* holds each edge once, and adding an edge adds its endpoints.
GraphNodes(init_event) ==
    init_event.nodes \cup {e[1] : e \in init_event.edges}
                     \cup {e[2] : e \in init_event.edges}

GraphEdges(init_event) == {SortedPair(e[1], e[2]) : e \in init_event.edges}

\* nx.spring_layout(graph, seed=42): one position per node of the graph, the same
\* for the same graph.  The coordinates are abstract.
SpringLayout(nodes) == [n \in nodes |-> <<n, Cardinality(nodes)>>]

\* for node in self.graph.nodes: self.node_states[node] = "SINGLE"
InitialNodeStates(nodes) == [n \in nodes |-> "SINGLE"]

\* The constructor, from json.load to the batching of the remaining events.
Construct ==
    /\ pc = "start"
    /\ IF json_file = <<>>
       THEN \* raw_events.pop(0) on an empty list
            /\ pc' = "failed"
            /\ err' = IndexError
            /\ UNCHANGED <<raw_events, graph_nodes, graph_edges, pos, node_states,
                           frames>>
       ELSE LET init_event == Head(json_file)
                rest == Tail(json_file)
            IN  IF init_event.type # "INIT"
                THEN /\ pc' = "failed"
                     /\ err' = ValueError
                     /\ raw_events' = rest
                     /\ UNCHANGED <<graph_nodes, graph_edges, pos, node_states, frames>>
                ELSE /\ pc' = "constructed"
                     /\ err' = NoError
                     /\ graph_nodes' = GraphNodes(init_event)
                     /\ graph_edges' = GraphEdges(init_event)
                     /\ pos' = SpringLayout(GraphNodes(init_event))
                     /\ node_states' = InitialNodeStates(GraphNodes(init_event))
                     /\ frames' = group_events_by_time(rest)
                     /\ raw_events' = EventsAfterGrouping(rest)
    /\ UNCHANGED <<json_file, matched_edges, frame_idx, active_messages,
                   state_changes_count, message_count, match_count, calls>>

\* Line 42 alone: the constructor has popped the INIT event and built the
\* topology, and now batches the remaining events.
GroupEventsByTime ==
    /\ pc = "grouping"
    /\ pc' = "constructed"
    /\ frames' = group_events_by_time(raw_events)
    /\ raw_events' = EventsAfterGrouping(raw_events)
    /\ UNCHANGED <<json_file, err, graph_nodes, graph_edges, pos, node_states,
                   matched_edges, frame_idx, active_messages, state_changes_count,
                   message_count, match_count, calls>>

-----------------------------------------------------------------------------
(* update_frame *)

\* d[k] = v on a dict: the key is added when it is new.
DictSet(d, k, v) == [x \in (DOMAIN d) \cup {k} |-> IF x = k THEN v ELSE d[x]]

\* Mutant of AddMatchedEdge: a pair already in the set taken out of it.
AddMatchedEdgeToggle(edges, node, partner) ==
    IF node = partner THEN edges
    ELSE IF SortedPair(node, partner) \in edges
    THEN edges \ {SortedPair(node, partner)}
    ELSE edges \cup {SortedPair(node, partner)}

\* Mutant of AddMatchedEdge: the `node != partner` test left out.
AddMatchedEdgeUnchecked(edges, node, partner) == edges \cup {SortedPair(node, partner)}

\* self.matched_edges.add(tuple(sorted((node, partner)))) under `if node != partner`
AddMatchedEdge(edges, node, partner) ==
    IF node # partner THEN edges \cup {SortedPair(node, partner)} ELSE edges

\* The locals and fields update_frame works on.
FrameState(states, edges, messages, n_state, n_msg, n_match) ==
    [node_states |-> states, matched_edges |-> edges, active_messages |-> messages,
     state_changes_count |-> n_state, message_count |-> n_msg, match_count |-> n_match]

\* Mutant of ApplyEvent: the counters incremented outside the presence tests, so
\* that an event with a missing field is counted.
ApplyEventCountAll(st, event) ==
    IF event.type = "STATE_CHANGE"
    THEN IF event.node # None /\ event.state # NoneStr
         THEN [st EXCEPT !.node_states = DictSet(@, event.node, event.state),
                         !.state_changes_count = @ + 1]
         ELSE [st EXCEPT !.state_changes_count = @ + 1]
    ELSE IF event.type = "MSG_SENT"
    THEN IF event.sender # None /\ event.target # None
         THEN [st EXCEPT !.active_messages =
                             Append(@, <<event.sender, event.target, event.mtype>>),
                         !.message_count = @ + 1]
         ELSE [st EXCEPT !.message_count = @ + 1]
    ELSE IF event.type = "MATCHED"
    THEN IF event.node # None /\ event.partner # None
         THEN [st EXCEPT !.node_states = DictSet(@, event.node, "MATCHED"),
                         !.matched_edges = IF event.node # event.partner
                                           THEN @ \cup {SortedPair(event.node, event.partner)}
                                           ELSE @,
                         !.match_count = @ + 1]
         ELSE [st EXCEPT !.match_count = @ + 1]
    ELSE st

\* Mutant of ApplyEvent: a MATCHED event marks the partner MATCHED as well.
ApplyEventBothMatched(st, event) ==
    IF event.type = "STATE_CHANGE"
    THEN IF event.node # None /\ event.state # NoneStr
         THEN [st EXCEPT !.node_states = DictSet(@, event.node, event.state),
                         !.state_changes_count = @ + 1]
         ELSE st
    ELSE IF event.type = "MSG_SENT"
    THEN IF event.sender # None /\ event.target # None
         THEN [st EXCEPT !.active_messages =
                             Append(@, <<event.sender, event.target, event.mtype>>),
                         !.message_count = @ + 1]
         ELSE st
    ELSE IF event.type = "MATCHED"
    THEN IF event.node # None /\ event.partner # None
         THEN [st EXCEPT !.node_states =
                             DictSet(DictSet(@, event.node, "MATCHED"),
                                     event.partner, "MATCHED"),
                         !.matched_edges = AddMatchedEdge(@, event.node, event.partner),
                         !.match_count = @ + 1]
         ELSE st
    ELSE st

\* One iteration of `for event in current_events`.
ApplyEvent(st, event) ==
    IF event.type = "STATE_CHANGE"
    THEN IF event.node # None /\ event.state # NoneStr
         THEN [st EXCEPT !.node_states = DictSet(@, event.node, event.state),
                         !.state_changes_count = @ + 1]
         ELSE st
    ELSE IF event.type = "MSG_SENT"
    THEN IF event.sender # None /\ event.target # None
         THEN [st EXCEPT !.active_messages =
                             Append(@, <<event.sender, event.target, event.mtype>>),
                         !.message_count = @ + 1]
         ELSE st
    ELSE IF event.type = "MATCHED"
    THEN IF event.node # None /\ event.partner # None
         THEN [st EXCEPT !.node_states = DictSet(@, event.node, "MATCHED"),
                         !.matched_edges = AddMatchedEdge(@, event.node, event.partner),
                         !.match_count = @ + 1]
         ELSE st
    ELSE st

\* Mutant of ApplyEvents: the events of a frame applied last to first.
RECURSIVE ApplyEventsReversed(_, _, _)
ApplyEventsReversed(st, current_events, i) ==
    IF i > Len(current_events) THEN st
    ELSE ApplyEvent(ApplyEventsReversed(st, current_events, i + 1), current_events[i])

RECURSIVE ApplyEvents(_, _, _)
ApplyEvents(st, current_events, i) ==
    IF i > Len(current_events) THEN st
    ELSE ApplyEvents(ApplyEvent(st, current_events[i]), current_events, i + 1)

\* Mutant of FrameStart: the counters carried over from the call before.
FrameStartCumulative(states, edges) ==
    FrameState(states, edges, <<>>, state_changes_count, message_count, match_count)

\* Mutant of FrameStart: the message list kept from the call before.
FrameStartKeepMessages(states, edges) ==
    FrameState(states, edges, active_messages, 0, 0, 0)

\* Mutant of FrameStart: the matched edges reset with the frame's locals.
FrameStartFresh(states, edges) == FrameState(states, {}, <<>>, 0, 0, 0)

\* The state the frame starts from: the fields as they are, the locals reset
\* (active_messages = [], the three counters = 0).
FrameStart(states, edges) == FrameState(states, edges, <<>>, 0, 0, 0)

\* Lines 128 and 134-135: STATE_COLORS[...] of a graph node whose state has no
\* colour, or self.pos[...] of a sender or target that has no position.
RenderRaises(st) ==
    \/ \E n \in graph_nodes : st.node_states[n] \notin STATE_COLORS
    \/ \E i \in 1..Len(st.active_messages) :
          \/ st.active_messages[i][1] \notin DOMAIN pos
          \/ st.active_messages[i][2] \notin DOMAIN pos

\* Line 126: drawing a matched edge one of whose endpoints has no position is
\* left to the drawing library, which may raise on it.
DrawEdgesMayRaise(st) ==
    \E e \in st.matched_edges : e[1] \notin DOMAIN pos \/ e[2] \notin DOMAIN pos

RenderOutcomes(st) ==
    IF RenderRaises(st) THEN {TRUE}
    ELSE IF DrawEdgesMayRaise(st) THEN {TRUE, FALSE}
    ELSE {FALSE}

\* Mutant of OutOfRange: an index equal to the number of frames let through.
OutOfRangeStrict(idx) == idx > Len(frames)

\* if frame_idx >= len(self.frames): return
OutOfRange(idx) == idx >= Len(frames)

\* Mutant of FramesAfterFetch: the frame emptied once it has been read.
FramesConsumed(fs, idx) == [fs EXCEPT ![idx + 1] = <<>>]

\* current_events = self.frames[frame_idx]: the batch is read where it is, the
\* frame list stays as it was.
FramesAfterFetch(fs, idx) == fs

\* update_frame(idx).  `next` is the index the caller asks for afterwards and
\* `after` the caller's position once the call has returned; an exception
\* leaving update_frame ends the program.
update_frame(idx, next, after) ==
    IF OutOfRange(idx)
    THEN /\ frame_idx' = next
         /\ pc' = after
         /\ UNCHANGED <<err, frames, node_states, matched_edges, active_messages,
                        state_changes_count, message_count, match_count>>
    ELSE IF idx >= Len(frames)
    THEN \* self.frames[frame_idx] past the end of the list
         /\ pc' = "failed"
         /\ err' = FrameIndexError
         /\ frame_idx' = idx
         /\ UNCHANGED <<frames, node_states, matched_edges, active_messages,
                        state_changes_count, message_count, match_count>>
    ELSE LET st == ApplyEvents(FrameStart(node_states, matched_edges), frames[idx + 1], 1)
         IN  /\ frames' = FramesAfterFetch(frames, idx)
             /\ node_states' = st.node_states
             /\ matched_edges' = st.matched_edges
             /\ active_messages' = st.active_messages
             /\ state_changes_count' = st.state_changes_count
             /\ message_count' = st.message_count
             /\ match_count' = st.match_count
             /\ \E raises \in RenderOutcomes(st) :
                   IF raises
                   THEN pc' = "failed" /\ err' = KeyError /\ frame_idx' = idx
                   ELSE pc' = after /\ err' = err /\ frame_idx' = next

-----------------------------------------------------------------------------
(* animate *)

\* FuncAnimation(fig, update_frame, frames=len(self.frames), repeat=False):
\* the animation is set up and will ask for the frame indices 0, 1, ... in order.
Animate ==
    /\ pc = "constructed"
    /\ pc' = "animating"
    /\ frame_idx' = 0
    /\ UNCHANGED <<json_file, raw_events, err, graph_nodes, graph_edges, pos,
                   node_states, matched_edges, frames, active_messages,
                   state_changes_count, message_count, match_count, calls>>

\* No init_func is given to FuncAnimation, so when the figure is first shown the
\* animation draws its clear frame by calling update_frame on the first item of
\* a fresh frame sequence; the ticks then start from index 0 again.
InitDraw ==
    /\ pc = "animating"
    /\ calls = <<>>
    /\ frames # <<>>
    /\ update_frame(0, 0, "animating")
    /\ calls' = Append(calls, 0)
    /\ UNCHANGED <<json_file, raw_events, graph_nodes, graph_edges, pos>>

\* One tick of the animation: update_frame(frame_idx).
UpdateFrame ==
    /\ pc = "animating"
    /\ calls # <<>>
    /\ frame_idx < Len(frames)
    /\ update_frame(frame_idx, frame_idx + 1, "animating")
    /\ calls' = Append(calls, frame_idx)
    /\ UNCHANGED <<json_file, raw_events, graph_nodes, graph_edges, pos>>

\* The frame indices are exhausted and the animation does not repeat.
AnimationEnds ==
    /\ pc = "animating"
    /\ frame_idx >= Len(frames)
    /\ pc' = "done"
    /\ UNCHANGED <<json_file, raw_events, err, graph_nodes, graph_edges, pos,
                   node_states, matched_edges, frames, frame_idx, active_messages,
                   state_changes_count, message_count, match_count, calls>>

-----------------------------------------------------------------------------
(* The logs the model replays *)

\* Node ids of the INIT event's topology, and a node id no INIT event names.
TopologyNodes == {1, 2}
Stranger == Cardinality(TopologyNodes) + 1

\* Timestamps of replayed events: one window, and the first instant of the next.
LogStamps == {0, TIME_WINDOW_NS + 1}

InitEvents == {InitEvent(TopologyNodes, {<<1, 2>>})}

\* (node, state) of STATE_CHANGE events: two states on one node, another node,
\* a node outside the topology, a state outside STATE_COLORS, each field missing.
StateChangeFields ==
    {<<1, "PROPOSER">>, <<1, "LISTENER">>, <<2, "PROPOSER">>, <<Stranger, "PROPOSER">>,
     <<1, "UNKNOWN">>, <<None, "PROPOSER">>, <<1, NoneStr>>}

\* (sender, target) of MSG_SENT events: both directions, an endpoint outside the
\* topology, each field missing.
MsgSentFields ==
    {<<1, 2>>, <<2, 1>>, <<1, Stranger>>, <<None, 2>>, <<1, None>>}

\* (node, partner) of MATCHED events: both directions, a self-match, an endpoint
\* outside the topology on either side, each field missing.
MatchedFields ==
    {<<1, 2>>, <<2, 1>>, <<1, 1>>, <<Stranger, 1>>, <<2, Stranger>>,
     <<None, 1>>, <<2, None>>}

BodyEvents ==
    {StateChange(f[1], f[2], t) : f \in StateChangeFields, t \in LogStamps}
    \cup {MsgSent(f[1], f[2], "PROPOSE", t) : f \in MsgSentFields, t \in LogStamps}
    \cup {Matched(f[1], f[2], t) : f \in MatchedFields, t \in LogStamps}
    \cup InitEvents

\* The constructor reads nothing but the type of a first event that is not INIT.
FirstEvents == InitEvents \cup {StateChange(1, "PROPOSER", 0)}

Logs ==
    {<<>>} \cup {<<h>> \o b : h \in FirstEvents, b \in SeqsUpTo(BodyEvents, MaxBody)}

Init ==
    /\ json_file \in Logs
    /\ raw_events = json_file
    /\ pc = "start"
    /\ err = NoError
    /\ graph_nodes = {}
    /\ graph_edges = {}
    /\ pos = <<>>
    /\ node_states = <<>>
    /\ matched_edges = {}
    /\ frames = <<>>
    /\ frame_idx = 0
    /\ active_messages = <<>>
    /\ state_changes_count = 0
    /\ message_count = 0
    /\ match_count = 0
    /\ calls = <<>>

Next == Construct \/ Animate \/ InitDraw \/ UpdateFrame \/ AnimationEnds

Spec == Init /\ [][Next]_vars

-----------------------------------------------------------------------------
(* update_frame called directly, with any index and in any order *)

\* A caller holding the constructed object calls update_frame(idx) for an index
\* in range or past the end; frame_idx keeps the index of the last call, and pc
\* tells whether that call repeated the index of the call before it.
CallUpdateFrame ==
    /\ pc \in {"constructed", "called", "repeated"}
    /\ \E idx \in 0..(Len(frames) + 1) :
          update_frame(idx, idx, IF pc # "constructed" /\ idx = frame_idx
                                 THEN "repeated" ELSE "called")
    /\ UNCHANGED <<json_file, raw_events, graph_nodes, graph_edges, pos, calls>>

\* The events of the logs update_frame is called on directly: complete events
\* of the three kinds, one with each kind's first field or second field
\* missing, a self-match, both directions of one pair, a state without colour.
CallEvents ==
    {StateChange(f[1], f[2], t) :
         f \in {<<1, "PROPOSER">>, <<2, "LISTENER">>, <<None, "PROPOSER">>,
                <<1, "UNKNOWN">>},
         t \in LogStamps}
    \cup {MsgSent(f[1], f[2], "PROPOSE", t) : f \in {<<1, 2>>, <<1, None>>},
                                              t \in LogStamps}
    \cup {Matched(f[1], f[2], t) : f \in {<<1, 2>>, <<2, 1>>, <<1, 1>>, <<2, None>>},
                                   t \in LogStamps}

InitCalls ==
    /\ json_file \in {<<h>> \o b : h \in InitEvents, b \in SeqsUpTo(CallEvents, MaxBody)}
    /\ raw_events = json_file
    /\ pc = "start"
    /\ err = NoError
    /\ graph_nodes = {}
    /\ graph_edges = {}
    /\ pos = <<>>
    /\ node_states = <<>>
    /\ matched_edges = {}
    /\ frames = <<>>
    /\ frame_idx = 0
    /\ active_messages = <<>>
    /\ state_changes_count = 0
    /\ message_count = 0
    /\ match_count = 0
    /\ calls = <<>>

NextCalls == Construct \/ CallUpdateFrame

SpecCalls == InitCalls /\ [][NextCalls]_vars

-----------------------------------------------------------------------------
(* The event lists group_events_by_time is checked on *)

\* Timestamps at and just past every window multiple up to MaxWin windows.
Stamps == {a * TIME_WINDOW_NS + d : a \in 0..MaxWin, d \in {0, 1}}

\* Events told apart by their node, with every timestamp, present or missing.
BatchEvents == {StateChange(n, "PROPOSER", t) : n \in TopologyNodes,
                                               t \in Stamps \cup {NoTimestamp}}

InitGroup ==
    /\ json_file \in {<<h>> \o b : h \in InitEvents, b \in SeqsUpTo(BatchEvents, MaxEvents)}
    /\ raw_events = Tail(json_file)
    /\ pc = "grouping"
    /\ err = NoError
    /\ graph_nodes = GraphNodes(Head(json_file))
    /\ graph_edges = GraphEdges(Head(json_file))
    /\ pos = SpringLayout(graph_nodes)
    /\ node_states = InitialNodeStates(graph_nodes)
    /\ matched_edges = {}
    /\ frames = <<>>
    /\ frame_idx = 0
    /\ active_messages = <<>>
    /\ state_changes_count = 0
    /\ message_count = 0
    /\ match_count = 0
    /\ calls = <<>>

NextGroup == GroupEventsByTime

SpecGroup == InitGroup /\ [][NextGroup]_vars

-----------------------------------------------------------------------------
(* Properties of group_events_by_time, checked under SpecGroup *)

\* The list handed to group_events_by_time, as it was before the call.
GroupInput == Tail(json_file)

Grouped == pc = "constructed"

RECURSIVE Flatten(_)
Flatten(fs) == IF fs = <<>> THEN <<>> ELSE Head(fs) \o Flatten(Tail(fs))

RECURSIVE TotalLen(_)
TotalLen(fs) == IF fs = <<>> THEN 0 ELSE Len(Head(fs)) + TotalLen(Tail(fs))

\* Position, in the concatenation of the frames, of the first event of frame k.
FrameStartPos(k) == TotalLen(SubSeq(frames, 1, k - 1)) + 1

FrameStartPositions == {FrameStartPos(k) : k \in 1..Len(frames)}

\* Position of the anchor of the frame that holds position i.
AnchorPos(i) ==
    CHOOSE a \in FrameStartPositions :
        /\ a <= i
        /\ \A b \in FrameStartPositions : b <= i => b <= a

\* C1: a new frame opens exactly at the first event, in sorted order, whose
\* timestamp is more than TIME_WINDOW_NS past the timestamp of the current
\* frame's first event, and that event is the first of the new frame; so the
\* first event of every frame after the first is more than TIME_WINDOW_NS later
\* than the first event of the frame before it.
C1_SlidingAnchor ==
    Grouped =>
        LET s == Flatten(frames)
        IN  /\ \A i \in 2..Len(s) :
                   (i \in FrameStartPositions) <=>
                       (Timestamp(s[i]) - Timestamp(s[AnchorPos(i - 1)]) > TIME_WINDOW_NS)
            /\ \A k \in 2..Len(frames) :
                   Timestamp(frames[k][1]) - Timestamp(frames[k - 1][1]) > TIME_WINDOW_NS

\* C1 witness: a frame boundary that falls inside one fixed bin of width
\* TIME_WINDOW_NS: the last event of a frame and the anchor of the next frame
\* lie in the same bin, and the anchor is no multiple of the window.
C1_Witness ==
    /\ Grouped
    /\ \E k \in 2..Len(frames) :
          /\ Timestamp(frames[k][1]) % TIME_WINDOW_NS # 0
          /\ Timestamp(frames[k - 1][Len(frames[k - 1])]) \div TIME_WINDOW_NS
                 = Timestamp(frames[k][1]) \div TIME_WINDOW_NS

\* C2: every event of a frame is at most TIME_WINDOW_NS later than the frame's
\* first event, and an event exactly TIME_WINDOW_NS after a frame's first event
\* is in that frame and in no other.
C2_InclusiveWindow ==
    Grouped =>
        /\ \A k \in 1..Len(frames) : \A j \in 1..Len(frames[k]) :
               Timestamp(frames[k][j]) - Timestamp(frames[k][1]) <= TIME_WINDOW_NS
        /\ \A k \in 1..Len(frames) : \A i \in 1..Len(GroupInput) :
               Timestamp(GroupInput[i]) = Timestamp(frames[k][1]) + TIME_WINDOW_NS =>
                   /\ \E j \in 1..Len(frames[k]) : frames[k][j] = GroupInput[i]
                   /\ \A m \in 1..Len(frames) : m # k =>
                          \A j \in 1..Len(frames[m]) : frames[m][j] # GroupInput[i]

\* C2 witness: a frame after the first holds an event exactly TIME_WINDOW_NS
\* after its anchor.
C2_Witness ==
    /\ Grouped
    /\ \E k \in 2..Len(frames) : \E j \in 2..Len(frames[k]) :
          Timestamp(frames[k][j]) = Timestamp(frames[k][1]) + TIME_WINDOW_NS

\* The events of s whose timestamp is t, in their order in s.
AtTimestamp(s, t) ==
    LET IsAt(e) == Timestamp(e) = t
    IN  SelectSeq(s, IsAt)

TimestampsOf(s) == {Timestamp(s[i]) : i \in 1..Len(s)}

\* out is in_ sorted by timestamp with ties in input order: out is in timestamp
\* order, and at every timestamp it holds the events in_ holds there, in the
\* order in_ holds them.
IsStableSort(in_, out) ==
    /\ \A i, j \in 1..Len(out) : i < j => Timestamp(out[i]) <= Timestamp(out[j])
    /\ \A t \in TimestampsOf(in_) \cup TimestampsOf(out) :
           AtTimestamp(out, t) = AtTimestamp(in_, t)

\* C3: the frames, concatenated in frame order, are the input events sorted by
\* timestamp with ties in input order (nothing lost or duplicated), and every
\* event of an earlier frame has a timestamp no greater than every event of a
\* later frame.
C3_FramesAreSortedInput ==
    Grouped =>
        /\ IsStableSort(GroupInput, Flatten(frames))
        /\ \A k, m \in 1..Len(frames) : k < m =>
               \A i \in 1..Len(frames[k]) : \A j \in 1..Len(frames[m]) :
                   Timestamp(frames[k][i]) <= Timestamp(frames[m][j])

\* C3 witness: an input out of order, with two different events at one
\* timestamp, batched into more than one frame.
C3_Witness ==
    /\ Grouped
    /\ Len(frames) >= 2
    /\ \E i, j \in 1..Len(GroupInput) :
          i < j /\ Timestamp(GroupInput[i]) > Timestamp(GroupInput[j])
    /\ \E i, j \in 1..Len(GroupInput) :
          /\ i < j
          /\ Timestamp(GroupInput[i]) = Timestamp(GroupInput[j])
          /\ GroupInput[i] # GroupInput[j]

\* C4: the frame sequence is empty exactly when the event list is, and no frame
\* is empty, so there are at most as many frames as events.
C4_NoEmptyFrame ==
    Grouped =>
        /\ (frames = <<>>) <=> (GroupInput = <<>>)
        /\ \A k \in 1..Len(frames) : frames[k] # <<>>
        /\ Len(frames) <= Len(GroupInput)

\* C4 witness: events whose earliest timestamp is already more than a window
\* past 0, batched into as many frames as there are events.
C4_Witness ==
    /\ Grouped
    /\ Len(GroupInput) >= 2
    /\ Len(frames) = Len(GroupInput)
    /\ Timestamp(frames[1][1]) > TIME_WINDOW_NS

-----------------------------------------------------------------------------
(* Properties of the replay, checked under Spec *)

\* The constructor returned: the object exists, whatever happened afterwards.
Constructed ==
    \/ pc \in {"constructed", "animating", "done"}
    \/ pc = "failed" /\ err = KeyError

\* The next step, if any, is update_frame(frame_idx) on an existing frame.
AboutToApply == pc = "animating" /\ frame_idx < Len(frames)

CompleteStateChange(e) == e.type = "STATE_CHANGE" /\ e.node # None /\ e.state # NoneStr

CompleteMatched(e) == e.type = "MATCHED" /\ e.node # None /\ e.partner # None

SelfMatch(e) == CompleteMatched(e) /\ e.node = e.partner

\* C5: matched_edges only grows: an edge present before a step is present after
\* it, so the size of the set never decreases.
C5_MatchedEdgesGrow ==
    [][/\ matched_edges \subseteq matched_edges'
       /\ Cardinality(matched_edges) <= Cardinality(matched_edges')]_vars

\* C5 witness: two frames applied, the first of which matched a pair that is
\* still an edge after the second.
C5_Witness ==
    /\ pc \in {"animating", "done"}
    /\ frame_idx = 2
    /\ \E i \in 1..Len(frames[1]) :
          /\ CompleteMatched(frames[1][i])
          /\ ~SelfMatch(frames[1][i])
          /\ SortedPair(frames[1][i].node, frames[1][i].partner) \in matched_edges

\* C6: a MATCHED event with node = partner sets the node's state to MATCHED and
\* counts as a match of its frame but adds no edge: the edges a frame adds are
\* pairs of its MATCHED events with node # partner, and matched_edges never
\* holds a pair with equal endpoints.
C6_SelfMatchAddsNoEdge ==
    [][/\ \A e \in matched_edges' : e[1] # e[2]
       /\ AboutToApply =>
              LET f == frames[frame_idx + 1]
              IN  /\ match_count' = Cardinality({i \in 1..Len(f) : CompleteMatched(f[i])})
                  /\ (matched_edges' \ matched_edges) \subseteq
                         {SortedPair(f[i].node, f[i].partner) :
                              i \in {j \in 1..Len(f) : CompleteMatched(f[j])
                                                          /\ ~SelfMatch(f[j])}}
                  /\ \A i \in 1..Len(f) :
                         (/\ SelfMatch(f[i])
                          /\ \A j \in (i + 1)..Len(f) :
                                 ~(CompleteStateChange(f[j]) /\ f[j].node = f[i].node))
                         => /\ f[i].node \in DOMAIN node_states'
                            /\ node_states'[f[i].node] = "MATCHED"]_vars

\* C6 witness: the first frame held a self-match and has been applied: the node
\* is MATCHED, the match was counted, and there is no edge.
C6_Witness ==
    /\ pc \in {"animating", "done"}
    /\ frame_idx = 1
    /\ \E i \in 1..Len(frames[1]) :
          /\ SelfMatch(frames[1][i])
          /\ node_states[frames[1][i].node] = "MATCHED"
    /\ match_count >= 1
    /\ matched_edges = {}

\* C7: the keys of node_states are the topology's nodes in every state of a
\* constructed replay: no frame removes a key and none adds one, also when an
\* event names a node outside the topology.
C7_KeysAreTopologyNodes ==
    Constructed => DOMAIN node_states = graph_nodes

\* C8: a state outside SINGLE, PROPOSER, LISTENER, MATCHED is never stored:
\* every node's state is one of the four in every state.
C8_StatesAreClosed ==
    \A n \in DOMAIN node_states : node_states[n] \in STATE_COLORS

\* C9: when the first element of the log is not an INIT event, or the log has
\* no first element, construction fails with the error for a missing or
\* misplaced INIT, and no frame is produced or applied.
C9_MissingInitFails ==
    (pc # "start" /\ (json_file = <<>> \/ Head(json_file).type # "INIT")) =>
        /\ pc = "failed"
        /\ err = ValueError
        /\ frames = <<>>
        /\ matched_edges = {}
        /\ node_states = <<>>

\* C10: a log with an INIT event at a position other than the first is
\* rejected: construction fails, and the event is batched into no frame.
C10_LaterInitRejected ==
    (pc # "start" /\ \E i \in 2..Len(json_file) : json_file[i].type = "INIT") =>
        /\ pc = "failed"
        /\ err = ValueError
        /\ frames = <<>>

-----------------------------------------------------------------------------
(* Properties of one application of a frame *)

CompleteMsgSent(e) == e.type = "MSG_SENT" /\ e.sender # None /\ e.target # None

\* The event has the fields its kind requires.
Complete(e) == CompleteStateChange(e) \/ CompleteMsgSent(e) \/ CompleteMatched(e)

\* The event writes a node's state: a complete STATE_CHANGE or MATCHED.
WritesState(e) == CompleteStateChange(e) \/ CompleteMatched(e)

\* Number of complete events of one kind in a frame.
CountComplete(f, type) ==
    Cardinality({i \in 1..Len(f) : f[i].type = type /\ Complete(f[i])})

\* The pairs of the complete MATCHED events of a frame whose node and partner
\* differ, smaller id first.
MatchedPairs(f) ==
    {IF f[i].node < f[i].partner THEN <<f[i].node, f[i].partner>>
                                 ELSE <<f[i].partner, f[i].node>> :
         i \in {j \in 1..Len(f) : CompleteMatched(f[j]) /\ f[j].node # f[j].partner}}

\* The drawing of the scene has something to fail on after the step.
SceneCannotBeDrawn ==
    \/ \E n \in graph_nodes : node_states'[n] \notin STATE_COLORS
    \/ \E i \in 1..Len(active_messages') :
          active_messages'[i][1] \notin DOMAIN pos \/ active_messages'[i][2] \notin DOMAIN pos
    \/ \E e \in matched_edges' : e[1] \notin DOMAIN pos \/ e[2] \notin DOMAIN pos

\* C11: an event missing a required field is skipped when its frame is applied:
\* only complete events are counted and listed as messages, a node's state
\* changes and an edge appears only through a complete event naming them, the
\* complete events of the frame all take effect, and the only error a frame can
\* end in is the drawing's, which a frame of incomplete events cannot bring about.
C11_IncompleteEventsSkipped ==
    [][AboutToApply =>
          LET f == frames[frame_idx + 1]
          IN  /\ state_changes_count' = CountComplete(f, "STATE_CHANGE")
              /\ message_count' = CountComplete(f, "MSG_SENT")
              /\ match_count' = CountComplete(f, "MATCHED")
              /\ Len(active_messages') = CountComplete(f, "MSG_SENT")
              /\ DOMAIN node_states \subseteq DOMAIN node_states'
              /\ \A n \in DOMAIN node_states' :
                     (n \notin DOMAIN node_states \/ node_states'[n] # node_states[n])
                     => \E i \in 1..Len(f) : WritesState(f[i]) /\ f[i].node = n
              /\ \A i \in 1..Len(f) : WritesState(f[i]) => f[i].node \in DOMAIN node_states'
              /\ matched_edges' = matched_edges \cup MatchedPairs(f)
              /\ pc' = "failed" => err' = KeyError /\ SceneCannotBeDrawn
              /\ (\A i \in 1..Len(f) : ~Complete(f[i])) =>
                     /\ node_states' = node_states
                     /\ matched_edges' = matched_edges
                     /\ active_messages' = <<>>
                     /\ (pc' = "failed" => \E e \in matched_edges :
                                              e[1] \notin DOMAIN pos \/ e[2] \notin DOMAIN pos)
      ]_vars

\* C11 witness: the frame last applied held an event with a required field
\* missing ahead of a complete event, and only the complete events were counted.
C11_Witness ==
    /\ pc \in {"animating", "done"}
    /\ calls # <<>>
    /\ LET f == frames[calls[Len(calls)] + 1]
       IN  /\ \E i, j \in 1..Len(f) :
                  i < j /\ ~Complete(f[i]) /\ f[i].type # "INIT" /\ Complete(f[j])
           /\ state_changes_count + message_count + match_count
                  = Cardinality({i \in 1..Len(f) : Complete(f[i])})

\* The (sender, target, type) triples of the complete MSG_SENT events of a
\* frame, in frame order.
RECURSIVE MessagesOf(_)
MessagesOf(f) ==
    IF f = <<>> THEN <<>>
    ELSE (IF CompleteMsgSent(Head(f))
          THEN <<<<Head(f).sender, Head(f).target, Head(f).mtype>>>>
          ELSE <<>>) \o MessagesOf(Tail(f))

\* A frame without its MSG_SENT events.
WithoutMessages(f) ==
    LET NotMsg(e) == e.type # "MSG_SENT"
    IN  SelectSeq(f, NotMsg)

\* C13: the message list of a frame is exactly the triples of that frame's
\* complete MSG_SENT events, in frame order, with nothing from an earlier frame;
\* and MSG_SENT events change neither node states nor matched edges: the
\* snapshot after the frame is the one the frame without them would give.
C13_MessagesAreTransient ==
    [][AboutToApply =>
          LET f == frames[frame_idx + 1]
              g == ApplyEvents(FrameStart(node_states, matched_edges),
                               WithoutMessages(f), 1)
          IN  /\ active_messages' = MessagesOf(f)
              /\ node_states' = g.node_states
              /\ matched_edges' = g.matched_edges
              /\ (\A i \in 1..Len(f) : f[i].type = "MSG_SENT") =>
                     node_states' = node_states /\ matched_edges' = matched_edges
      ]_vars

\* C13 witness: both frames hold a complete message, both have been applied,
\* and the list holds the second frame's messages only.
C13_Witness ==
    /\ pc \in {"animating", "done"}
    /\ Len(frames) = 2
    /\ frame_idx = 2
    /\ MessagesOf(frames[1]) # <<>>
    /\ MessagesOf(frames[2]) # <<>>
    /\ MessagesOf(frames[1]) # MessagesOf(frames[2])
    /\ active_messages = MessagesOf(frames[2])

\* The events of frames 0..k, concatenated.
EventsThrough(k) == Flatten(SubSeq(frames, 1, k + 1))

\* The snapshot that applying frames 0..k, each once and in order, to the
\* all-SINGLE snapshot gives.
AppliedOnceInOrder(k) ==
    ApplyEvents(FrameStart(InitialNodeStates(graph_nodes), {}), EventsThrough(k), 1)

\* The last frame index handed to update_frame.
LastCall == calls[Len(calls)]

\* C14: during a replay update_frame is called once per frame in frame order:
\* the j-th call is for frame j - 1, so that no frame is applied twice and frame
\* i comes after frames 0..i-1, and the snapshot behind the scene of frame i is
\* the result of applying frames 0..i to the all-SINGLE snapshot.
C14_EachFrameAppliedOnce ==
    /\ \A j \in 1..Len(calls) : calls[j] = j - 1
    /\ calls # <<>> =>
          /\ node_states = AppliedOnceInOrder(LastCall).node_states
          /\ matched_edges = AppliedOnceInOrder(LastCall).matched_edges

\* The positions in a sequence of events of those that write the state of n.
Writers(es, n) == {i \in 1..Len(es) : WritesState(es[i]) /\ es[i].node = n}

\* The state the event at a writer position assigns.
Written(e) == IF e.type = "STATE_CHANGE" THEN e.state ELSE "MATCHED"

\* The state the last writer of n in a sequence of events assigns, SINGLE if
\* the sequence has no writer of n.
LastWriterState(es, n) ==
    IF Writers(es, n) = {} THEN "SINGLE"
    ELSE LET last == CHOOSE i \in Writers(es, n) : \A j \in Writers(es, n) : j <= i
         IN  Written(es[last])

\* C16: accumulation is last-writer-wins in frame order: once frames 0..k have
\* been applied, the state of each topology node is the one assigned by the last
\* complete STATE_CHANGE or MATCHED event naming it as node in the concatenation
\* of those frames, and SINGLE if no event does.
C16_LastWriterWins ==
    calls # <<>> =>
        \A n \in graph_nodes :
            node_states[n] = LastWriterState(EventsThrough(LastCall), n)

\* C16 witness: both frames have been applied, each writes the state of the same
\* node, the two writes differ, and the node has the state of the second.
C16_Witness ==
    /\ pc \in {"animating", "done"}
    /\ Len(frames) = 2
    /\ calls # <<>>
    /\ LastCall = 1
    /\ \E n \in graph_nodes :
          /\ Writers(frames[1], n) # {}
          /\ Writers(frames[2], n) # {}
          /\ LastWriterState(frames[1], n) # LastWriterState(frames[2], n)
          /\ node_states[n] = LastWriterState(frames[2], n)

\* C15: applying a frame leaves the topology and the batched frames as they
\* were: the node set, the edge set, the node positions and the list of frames
\* with each frame's events are the same after update_frame as before it,
\* whatever the events of the frame.
C15_TopologyAndFramesUnchanged ==
    [][AboutToApply =>
          /\ graph_nodes' = graph_nodes
          /\ graph_edges' = graph_edges
          /\ pos' = pos
          /\ frames' = frames]_vars

\* C15 witness: a frame naming a node outside the topology has been applied;
\* the snapshot has a key for that node, the topology and the positions do not.
C15_Witness ==
    /\ calls # <<>>
    /\ frames[LastCall + 1] # <<>>
    /\ Stranger \in DOMAIN node_states
    /\ Stranger \notin graph_nodes
    /\ DOMAIN pos = graph_nodes
    /\ graph_edges # {}

\* The frame has a complete MATCHED event with node a and partner b.
HasMatched(f, a, b) ==
    \E i \in 1..Len(f) : CompleteMatched(f[i]) /\ f[i].node = a /\ f[i].partner = b

\* Every complete MATCHED event of the frame between two different nodes names
\* a pair already matched, in one direction or the other.
AllPairsAlreadyMatched(f) ==
    \A i \in 1..Len(f) :
        CompleteMatched(f[i]) /\ f[i].node # f[i].partner =>
            \/ <<f[i].node, f[i].partner>> \in matched_edges
            \/ <<f[i].partner, f[i].node>> \in matched_edges

\* C17: matched edges are canonical unordered pairs: every pair stored has its
\* smaller node id first, a frame adds the pairs of its MATCHED events in that
\* form whichever of the two nodes is named as node, and so a MATCHED event for
\* a pair already stored, in either direction, leaves matched_edges as it was.
C17_CanonicalPairs ==
    [][/\ \A e \in matched_edges' : e[1] < e[2]
       /\ AboutToApply =>
             LET f == frames[frame_idx + 1]
             IN  /\ matched_edges' = matched_edges \cup MatchedPairs(f)
                 /\ AllPairsAlreadyMatched(f) => matched_edges' = matched_edges
      ]_vars

\* C17 witness: the first frame matched a with b, the second b with a, both
\* have been applied and the set holds the one pair.
C17_Witness ==
    /\ pc \in {"animating", "done"}
    /\ Len(frames) = 2
    /\ calls # <<>>
    /\ LastCall = 1
    /\ \E a, b \in graph_nodes :
          /\ a < b
          /\ HasMatched(frames[1], a, b)
          /\ HasMatched(frames[2], b, a)
          /\ matched_edges = {<<a, b>>}

\* C18: a complete MATCHED event changes the state of its node only: a node
\* that no complete STATE_CHANGE or MATCHED event of the frame names as node,
\* the partner of a MATCHED event included, has after the frame the state it had
\* before, while the pair of each such MATCHED event is in matched_edges.
C18_MatchedWritesNodeOnly ==
    [][AboutToApply =>
          LET f == frames[frame_idx + 1]
          IN  /\ \A n \in DOMAIN node_states :
                    Writers(f, n) = {} =>
                        n \in DOMAIN node_states' /\ node_states'[n] = node_states[n]
              /\ \A i \in 1..Len(f) :
                    CompleteMatched(f[i]) =>
                        /\ node_states'[f[i].node] \in {Written(f[j]) : j \in i..Len(f)}
                        /\ f[i].node # f[i].partner =>
                               \/ <<f[i].node, f[i].partner>> \in matched_edges'
                               \/ <<f[i].partner, f[i].node>> \in matched_edges'
      ]_vars

\* C18 witness: a MATCHED event between two topology nodes has been applied and
\* nothing applied so far names the partner as node; the node is MATCHED, the
\* partner still SINGLE, and the pair is a matched edge.
C18_Witness ==
    /\ calls # <<>>
    /\ \E a, b \in graph_nodes :
          /\ a # b
          /\ HasMatched(frames[LastCall + 1], a, b)
          /\ Writers(EventsThrough(LastCall), b) = {}
          /\ node_states[a] = "MATCHED"
          /\ node_states[b] = "SINGLE"
          /\ (<<a, b>> \in matched_edges \/ <<b, a>> \in matched_edges)

-----------------------------------------------------------------------------
(* Properties of update_frame under any order of calls, checked under SpecCalls *)

Callable == pc \in {"constructed", "called", "repeated"}

\* The step is a call of update_frame on an existing frame, frames[frame_idx' + 1].
CallApplies == Callable /\ frame_idx' < Len(frames)

\* C12: the three counters of a call are those of its frame alone: whatever
\* frames were applied before, in whatever order, they are the numbers of
\* complete MSG_SENT, STATE_CHANGE and MATCHED events of the frame applied.
C12_CountersFrameScoped ==
    [][CallApplies =>
          LET f == frames[frame_idx' + 1]
          IN  /\ message_count' = CountComplete(f, "MSG_SENT")
              /\ state_changes_count' = CountComplete(f, "STATE_CHANGE")
              /\ match_count' = CountComplete(f, "MATCHED")]_vars

\* C12 witness: the second frame was applied last, after the first, which holds
\* the match whose edge is in the snapshot; the match count is the second
\* frame's, 0, and not the running total.
C12_Witness ==
    /\ pc \in {"called", "repeated"}
    /\ Len(frames) = 2
    /\ frame_idx = 1
    /\ CountComplete(frames[1], "MATCHED") >= 1
    /\ MatchedPairs(frames[2]) = {}
    /\ matched_edges # {}
    /\ match_count = 0
    /\ state_changes_count + message_count >= 1

\* The step is a call of update_frame with an index past the last frame.
CallOutOfRange == Callable /\ frame_idx' >= Len(frames)

\* C19: update_frame with an index greater than or equal to the number of
\* frames does nothing to the replay state: node_states and matched_edges are
\* as before the call and no error is raised.
C19_OutOfRangeIsNoOp ==
    [][CallOutOfRange =>
          /\ node_states' = node_states
          /\ matched_edges' = matched_edges
          /\ pc' # "failed"
          /\ err' = NoError]_vars

\* C19 witness: after a call that matched two nodes, update_frame has returned
\* from a call with an index past the last frame.
C19_Witness ==
    /\ pc \in {"called", "repeated"}
    /\ frames # <<>>
    /\ frame_idx >= Len(frames)
    /\ matched_edges # {}
    /\ err = NoError

\* The step is a call of update_frame on the frame the call before applied.
CallRepeats == pc \in {"called", "repeated"} /\ pc' = "repeated"

\* C20: applying the same frame twice in immediate succession is idempotent:
\* whatever the snapshot the first call started from, the second call leaves
\* node_states and matched_edges as the first left them and reports the same
\* three counters.
C20_RepeatIsIdempotent ==
    [][CallRepeats =>
          /\ frame_idx' = frame_idx
          /\ node_states' = node_states
          /\ matched_edges' = matched_edges
          /\ state_changes_count' = state_changes_count
          /\ message_count' = message_count
          /\ match_count' = match_count]_vars

\* C20 witness: a frame with a state change and a match between two nodes has
\* been applied twice in a row.
C20_Witness ==
    /\ pc = "repeated"
    /\ frame_idx < Len(frames)
    /\ MatchedPairs(frames[frame_idx + 1]) # {}
    /\ CountComplete(frames[frame_idx + 1], "STATE_CHANGE") >= 1
    /\ match_count >= 1
    /\ state_changes_count >= 1
    /\ matched_edges # {}

=============================================================================
